---- MODULE Spec2Model ----
(***************************************************************************)
(* Model of tools/check_parens.py: a script that reads one text file,      *)
(* scans it character by character keeping three running bracket counters, *)
(* prints one record per line and a final summary, and exits 0 or 2.       *)
(*                                                                         *)
(* A character is a one-character string; the file content, the decoded    *)
(* text s and every line are sequences of characters.  Standard output is  *)
(* the sequence of print() calls made so far, each one the sequence of     *)
(* output lines that call completes.                                       *)
(***************************************************************************)
EXTENDS Integers, Sequences, FiniteSets, TLC

\* Longest file content explored, in characters.
MaxLen == 3

\* The six characters the scan recognises (lines 11-22).
Brackets == {"(", ")", "{", "}", "[", "]"}

\* The line boundaries of str.splitlines() that have no escape in a string
\* literal.  VT, FS, GS, RS and NEL are written as the character itself
\* (U+000B, U+001C, U+001D, U+001E, U+0085); LS and PS (U+2028, U+2029)
\* cannot stand in a string literal and are named by their code point: no
\* line boundary ever reaches a printed line, so only its identity matters.
VT == ""

FS == ""

GS == ""

RS == ""

NEL == ""

LS == "U+2028"

PS == "U+2029"

\* Characters that are not brackets and that the explored files may hold:
\* an ordinary character, the line terminators LF and CR, and VT, a line
\* boundary of splitlines that the text-mode read leaves as it is.
NonBrackets == {"a", "\n", "\r", VT}

Alphabet == Brackets \cup NonBrackets

Contents == UNION {[1..n -> Alphabet] : n \in 0..MaxLen}

VARIABLES
  file,        \* the file at the fixed path p: [status, content]
  pc,          \* position of the running process in the script
  handleOpen,  \* the read handle of p is open
  opens,       \* times the handle was acquired by this process
  s,           \* line 4: the decoded text
  lines,       \* line 8: s.splitlines()
  i,           \* line 9: 1-based index of the current line (0: none yet)
  j,           \* line 10: 1-based position of the next character of the line
  paren,       \* line 5
  brace,       \* line 6
  brack,       \* line 7
  out,         \* standard output: one entry per print() call
  exitCode,    \* the process exit status; -1 while the process runs
  prev         \* <<>> or <<r>>: what the previous invocation read and produced

vars == <<file, pc, handleOpen, opens, s, lines, i, j, paren, brace, brack,
          out, exitCode, prev>>

----------------------------------------------------------------------------
\* Pure functions

\* Exit status of the interpreter when an exception reaches the top level.
UncaughtErrorStatus == 1

\* Path.read_text opens in text mode with universal newlines: CR LF and a
\* lone CR are both read as LF.
RECURSIVE Translate(_)
Translate(raw) ==
  IF raw = <<>> THEN <<>>
  ELSE IF raw[1] = "\r" /\ Len(raw) >= 2 /\ raw[2] = "\n"
       THEN <<"\n">> \o Translate(SubSeq(raw, 3, Len(raw)))
  ELSE IF raw[1] = "\r"
       THEN <<"\n">> \o Translate(Tail(raw))
  ELSE <<raw[1]>> \o Translate(Tail(raw))

\* Line boundaries of str.splitlines(): LF, CR, VT, FF, FS, GS, RS, NEL, LS
\* and PS (CR LF is handled in Split).
LineBreaks == {"\n", "\r", VT, "\f", FS, GS, RS, NEL, LS, PS}

\* str.splitlines(): break at every line boundary (CR LF counts once), the
\* boundaries dropped; the last piece is kept only when it is not empty.
RECURSIVE Split(_, _, _, _)
Split(text, k, cur, acc) ==
  IF k > Len(text) THEN (IF cur = <<>> THEN acc ELSE Append(acc, cur))
  ELSE IF text[k] = "\r" /\ k < Len(text) /\ text[k + 1] = "\n"
       THEN Split(text, k + 2, <<>>, Append(acc, cur))
  ELSE IF text[k] \in LineBreaks
       THEN Split(text, k + 1, <<>>, Append(acc, cur))
  ELSE Split(text, k + 1, Append(cur, text[k]), acc)

\* Faulty variant: a terminating line boundary yields an empty last line,
\* as splitting on the separator would.
SplitLinesFabricating(text) ==
  IF text # <<>> /\ text[Len(text)] \in LineBreaks
  THEN Append(Split(text, 1, <<>>, <<>>), <<>>)
  ELSE Split(text, 1, <<>>, <<>>)

SplitLines(text) == Split(text, 1, <<>>, <<>>)

\* Faulty variant: the closing square bracket decrements brace.
BumpBrackMixed(c, p, b, k) ==
  IF c = "(" THEN <<p + 1, b, k>>
  ELSE IF c = ")" THEN <<p - 1, b, k>>
  ELSE IF c = "{" THEN <<p, b + 1, k>>
  ELSE IF c = "}" THEN <<p, b - 1, k>>
  ELSE IF c = "[" THEN <<p, b, k + 1>>
  ELSE IF c = "]" THEN <<p, b - 1, k>>
  ELSE <<p, b, k>>

\* Lines 11-22: the effect of one character on <<paren, brace, brack>>.
Bump(c, p, b, k) ==
  IF c = "(" THEN <<p + 1, b, k>>
  ELSE IF c = ")" THEN <<p - 1, b, k>>
  ELSE IF c = "{" THEN <<p, b + 1, k>>
  ELSE IF c = "}" THEN <<p, b - 1, k>>
  ELSE IF c = "[" THEN <<p, b, k + 1>>
  ELSE IF c = "]" THEN <<p, b, k - 1>>
  ELSE <<p, b, k>>

Digit(d) == <<"0", "1", "2", "3", "4", "5", "6", "7", "8", "9">>[d + 1]

RECURSIVE NatStr(_)
NatStr(n) == IF n < 10 THEN Digit(n) ELSE NatStr(n \div 10) \o Digit(n % 10)

\* str(n) of an integer: decimal, "-" before a negative number.
Str(n) == IF n < 0 THEN "-" \o NatStr(-n) ELSE NatStr(n)

RECURSIVE PadLeft(_, _)
PadLeft(str, w) == IF Len(str) >= w THEN str ELSE PadLeft(" " \o str, w)

\* The format spec {n:wd}: decimal, right-aligned in at least w columns.
Fmt(n, w) == PadLeft(Str(n), w)

\* The characters of a line as the string they spell.
RECURSIVE Text(_)
Text(l) == IF l = <<>> THEN "" ELSE l[1] \o Text(Tail(l))

\* Line 23: the f-string of the per-line record.
FormatRecord(n, p, b, k, l) ==
  Fmt(n, 4) \o ": paren=" \o Fmt(p, 3) \o " brace=" \o Fmt(b, 3)
            \o " brack=" \o Fmt(k, 3) \o " | " \o Text(l)

\* Faulty variant: the summary printed without its leading line feed.
SummaryLinesNoBlank(p, b, k) ==
  << "FINAL COUNTS: paren " \o Str(p) \o " brace " \o Str(b)
       \o " brack " \o Str(k) >>

\* Faulty variant: the values of paren and brace exchanged in the summary.
SummaryLinesSwapped(p, b, k) ==
  << "",
     "FINAL COUNTS: paren " \o Str(b) \o " brace " \o Str(p)
       \o " brack " \o Str(k) >>

\* Line 25: print() joins its arguments with one space and ends the line;
\* the first argument starts with a line feed, which ends an empty line
\* before the summary line.
SummaryLines(p, b, k) ==
  << "",
     "FINAL COUNTS: paren " \o Str(p) \o " brace " \o Str(b)
       \o " brack " \o Str(k) >>

\* Faulty variant: failure only when all three counters are non-zero.
ExitStatusAll(p, b, k) == IF p # 0 /\ b # 0 /\ k # 0 THEN 2 ELSE 0

\* Lines 26-29.
ExitStatus(p, b, k) == IF p # 0 \/ b # 0 \/ k # 0 THEN 2 ELSE 0

----------------------------------------------------------------------------
\* The state before the script's first statement runs.

Fresh ==
  /\ pc = "start"
  /\ handleOpen = FALSE
  /\ opens = 0
  /\ s = <<>>
  /\ lines = <<>>
  /\ i = 0
  /\ j = 0
  /\ paren = 0
  /\ brace = 0
  /\ brack = 0
  /\ out = <<>>
  /\ exitCode = -1

Init ==
  /\ file \in [status : {"ok"}, content : Contents]
              \cup [status : {"missing", "undecodable"}, content : {<<>>}]
  /\ prev = <<>>
  /\ Fresh

----------------------------------------------------------------------------
\* The script, one action per statement or loop step.

\* Faulty variant: a missing file is taken for an empty text.
OpenFileRecovering ==
  /\ pc = "start"
  /\ \/ /\ file.status = "missing"
        /\ s' = <<>>
        /\ pc' = "init"
        /\ UNCHANGED <<handleOpen, opens, exitCode>>
     \/ /\ file.status # "missing"
        /\ handleOpen' = TRUE
        /\ opens' = opens + 1
        /\ pc' = "read"
        /\ UNCHANGED <<s, exitCode>>
  /\ UNCHANGED <<file, lines, i, j, paren, brace, brack, out, prev>>

\* Line 4, first half: read_text opens p.  A missing file raises, nothing
\* catches it, and the interpreter exits.
OpenFile ==
  /\ pc = "start"
  /\ \/ /\ file.status = "missing"
        /\ exitCode' = UncaughtErrorStatus
        /\ pc' = "exited"
        /\ UNCHANGED <<handleOpen, opens>>
     \/ /\ file.status # "missing"
        /\ handleOpen' = TRUE
        /\ opens' = opens + 1
        /\ pc' = "read"
        /\ UNCHANGED exitCode
  /\ UNCHANGED <<file, s, lines, i, j, paren, brace, brack, out, prev>>

\* Faulty variant: the handle is left open after the read.
ReadTextLeaking ==
  /\ pc = "read"
  /\ \/ /\ file.status = "undecodable"
        /\ exitCode' = UncaughtErrorStatus
        /\ pc' = "exited"
        /\ UNCHANGED s
     \/ /\ file.status = "ok"
        /\ s' = Translate(file.content)
        /\ pc' = "init"
        /\ UNCHANGED exitCode
  /\ UNCHANGED <<handleOpen, file, opens, lines, i, j, paren, brace, brack,
                 out, prev>>

\* Line 4, second half: read_text reads and decodes the whole file inside a
\* with block, so the handle is closed on return and on a decoding error.
ReadText ==
  /\ pc = "read"
  /\ handleOpen' = FALSE
  /\ \/ /\ file.status = "undecodable"
        /\ exitCode' = UncaughtErrorStatus
        /\ pc' = "exited"
        /\ UNCHANGED s
     \/ /\ file.status = "ok"
        /\ s' = Translate(file.content)
        /\ pc' = "init"
        /\ UNCHANGED exitCode
  /\ UNCHANGED <<file, opens, lines, i, j, paren, brace, brack, out, prev>>

\* Lines 5-8.
InitCounters ==
  /\ pc = "init"
  /\ paren' = 0
  /\ brace' = 0
  /\ brack' = 0
  /\ lines' = SplitLines(s)
  /\ pc' = "loop"
  /\ UNCHANGED <<file, handleOpen, opens, s, i, j, out, exitCode, prev>>

\* Faulty variant: the counters are reset at the start of every line.
NextLineResetting ==
  /\ pc = "loop"
  /\ \/ /\ i < Len(lines)
        /\ i' = i + 1
        /\ j' = 1
        /\ paren' = 0
        /\ brace' = 0
        /\ brack' = 0
        /\ pc' = "chars"
     \/ /\ i >= Len(lines)
        /\ pc' = "final"
        /\ UNCHANGED <<i, j, paren, brace, brack>>
  /\ UNCHANGED <<file, handleOpen, opens, s, lines, out, exitCode, prev>>

\* Line 9: enumerate(lines, start=1) yields the next line, or the loop ends.
NextLine ==
  /\ pc = "loop"
  /\ \/ /\ i < Len(lines)
        /\ i' = i + 1
        /\ j' = 1
        /\ pc' = "chars"
     \/ /\ i >= Len(lines)
        /\ pc' = "final"
        /\ UNCHANGED <<i, j>>
  /\ UNCHANGED <<file, handleOpen, opens, s, lines, paren, brace, brack, out,
                 exitCode, prev>>

\* Faulty variant: a counter falling below zero ends the scan with status 2.
ScanCharStrict ==
  /\ pc = "chars"
  /\ j <= Len(lines[i])
  /\ LET n == Bump(lines[i][j], paren, brace, brack)
     IN  /\ paren' = n[1]
         /\ brace' = n[2]
         /\ brack' = n[3]
         /\ IF n[1] < 0 \/ n[2] < 0 \/ n[3] < 0
            THEN exitCode' = 2 /\ pc' = "exited" /\ j' = j
            ELSE exitCode' = exitCode /\ pc' = pc /\ j' = j + 1
  /\ UNCHANGED <<file, handleOpen, opens, s, lines, i, out, prev>>

\* Lines 10-22: one character of the current line.
ScanChar ==
  /\ pc = "chars"
  /\ j <= Len(lines[i])
  /\ LET n == Bump(lines[i][j], paren, brace, brack)
     IN  /\ paren' = n[1]
         /\ brace' = n[2]
         /\ brack' = n[3]
  /\ j' = j + 1
  /\ UNCHANGED <<file, pc, handleOpen, opens, s, lines, i, out, exitCode,
                 prev>>

\* Line 23: the record of the line whose characters are exhausted.
PrintRecord ==
  /\ pc = "chars"
  /\ j > Len(lines[i])
  /\ out' = Append(out, <<FormatRecord(i, paren, brace, brack, lines[i])>>)
  /\ pc' = "loop"
  /\ UNCHANGED <<file, handleOpen, opens, s, lines, i, j, paren, brace,
                 brack, exitCode, prev>>

\* Line 25.
PrintFinal ==
  /\ pc = "final"
  /\ out' = Append(out, SummaryLines(paren, brace, brack))
  /\ pc' = "check"
  /\ UNCHANGED <<file, handleOpen, opens, s, lines, i, j, paren, brace,
                 brack, exitCode, prev>>

\* Lines 26-29.
ExitCheck ==
  /\ pc = "check"
  /\ exitCode' = ExitStatus(paren, brace, brack)
  /\ pc' = "exited"
  /\ UNCHANGED <<file, handleOpen, opens, s, lines, i, j, paren, brace,
                 brack, out, prev>>

----------------------------------------------------------------------------
\* The script invoked again after it exited: a new process starts from the
\* first statement; nothing of the old one is left but the file on disk.
\* prev remembers what the finished process read and produced.

Finished ==
  [content |-> file.content, status |-> file.status, out |-> out,
   exitCode |-> exitCode, counts |-> <<paren, brace, brack>>]

StartAgain(content) ==
  /\ pc = "exited"
  /\ prev' = <<Finished>>
  /\ file' = [file EXCEPT !.content = content]
  /\ pc' = "start"
  /\ handleOpen' = FALSE
  /\ opens' = 0
  /\ s' = <<>>
  /\ lines' = <<>>
  /\ i' = 0
  /\ j' = 0
  /\ paren' = 0
  /\ brace' = 0
  /\ brack' = 0
  /\ out' = <<>>
  /\ exitCode' = -1

InsertAt(seq, k, c) == SubSeq(seq, 1, k) \o <<c>> \o SubSeq(seq, k + 1, Len(seq))

RemoveAt(seq, k) == SubSeq(seq, 1, k - 1) \o SubSeq(seq, k + 1, Len(seq))

\* Invoked again on the unmodified file.
Rerun == StartAgain(file.content)

\* Invoked again after a non-bracket character was inserted into the file.
RerunAfterInsert ==
  /\ file.status = "ok"
  /\ Len(file.content) < MaxLen
  /\ \E k \in 0..Len(file.content), c \in NonBrackets :
       StartAgain(InsertAt(file.content, k, c))

\* Invoked again after a non-bracket character was removed from the file.
RerunAfterRemove ==
  /\ file.status = "ok"
  /\ \E k \in 1..Len(file.content) :
       /\ file.content[k] \in NonBrackets
       /\ StartAgain(RemoveAt(file.content, k))

Next ==
  \/ OpenFile
  \/ ReadText
  \/ InitCounters
  \/ NextLine
  \/ ScanChar
  \/ PrintRecord
  \/ PrintFinal
  \/ ExitCheck
  \/ Rerun
  \/ RerunAfterInsert
  \/ RerunAfterRemove

Spec == Init /\ [][Next]_vars

----------------------------------------------------------------------------
\* Vocabulary of the properties, defined by counting and independently of
\* the scan.

Count(seq, c) == Cardinality({k \in 1..Len(seq) : seq[k] = c})

\* Open characters minus close characters of one bracket kind.
Net(seq, open, close) == Count(seq, open) - Count(seq, close)

\* The characters of lines 1..n combined.
RECURSIVE Combined(_, _)
Combined(ls, n) == IF n = 0 THEN <<>> ELSE Combined(ls, n - 1) \o ls[n]

\* The characters the scan has applied to the counters so far.
Consumed ==
  IF pc = "chars"
  THEN Combined(lines, i - 1) \o SubSeq(lines[i], 1, j - 1)
  ELSE Combined(lines, i)

\* The record line i must show: cumulative net counts over lines 1..n.
ExpectedRecord(n) ==
  FormatRecord(n, Net(Combined(lines, n), "(", ")"),
                  Net(Combined(lines, n), "{", "}"),
                  Net(Combined(lines, n), "[", "]"), lines[n])

\* The summary line for the net counts of the whole text.
ExpectedSummary ==
  "FINAL COUNTS: paren " \o Str(Net(s, "(", ")"))
     \o " brace " \o Str(Net(s, "{", "}"))
     \o " brack " \o Str(Net(s, "[", "]"))

\* Number of lines of a raw file: its line terminators (CR LF is one), plus
\* one for a last line that no terminator ends.
NumLines(raw) ==
  Cardinality({k \in 1..Len(raw) :
                 /\ raw[k] \in LineBreaks
                 /\ ~(raw[k] = "\r" /\ k < Len(raw) /\ raw[k + 1] = "\n")})
    + (IF raw # <<>> /\ raw[Len(raw)] \notin LineBreaks THEN 1 ELSE 0)

\* The bracket characters of a text, in order.
BracketsOf(seq) == SelectSeq(seq, LAMBDA c : c \in Brackets)

\* Some prefix of the text closes more brackets of a kind than it opened.
Dips(seq) ==
  \E n \in 1..Len(seq) :
    \/ Net(SubSeq(seq, 1, n), "(", ")") < 0
    \/ Net(SubSeq(seq, 1, n), "{", "}") < 0
    \/ Net(SubSeq(seq, 1, n), "[", "]") < 0

\* Standard output as a sequence of lines.
RECURSIVE Flat(_)
Flat(calls) == IF calls = <<>> THEN <<>> ELSE calls[1] \o Flat(Tail(calls))

StdoutLines == Flat(out)

ReadOk == file.status = "ok"

----------------------------------------------------------------------------
\* C1: when the file was read, the process exits with 0 exactly when the
\* three counters are all 0 after the last character was scanned, and with
\* 2 otherwise; a completed scan gives no other exit code.
C1_ExitCode ==
  (ReadOk /\ pc = "exited") =>
    /\ i = Len(lines)
    /\ exitCode \in {0, 2}
    /\ (exitCode = 0) <=> (paren = 0 /\ brace = 0 /\ brack = 0)
    /\ (exitCode = 0) <=> /\ Net(file.content, "(", ")") = 0
                          /\ Net(file.content, "{", "}") = 0
                          /\ Net(file.content, "[", "]") = 0

C1_Witness ==
  /\ pc = "exited"
  /\ file.content = <<"(", ")", "}">>
  /\ exitCode = 2
  /\ <<paren, brace, brack>> = <<0, -1, 0>>

\* C2: the record printed for line k shows, for each bracket kind, opens
\* minus closes over all characters of lines 1..k; the counters are never
\* reset and at every point equal the net count of the characters applied.
C2_PrintedBalance ==
  (ReadOk /\ pc \notin {"start", "read", "init"}) =>
    /\ \A k \in 1..Len(out) :
         k <= Len(lines) => out[k] = <<ExpectedRecord(k)>>
    /\ paren = Net(Consumed, "(", ")")
    /\ brace = Net(Consumed, "{", "}")
    /\ brack = Net(Consumed, "[", "]")

C2_Witness ==
  /\ pc = "exited"
  /\ file.content = <<"[", "\n", "]">>
  /\ out[1] = <<"   1: paren=  0 brace=  0 brack=  1 | [">>
  /\ out[2] = <<"   2: paren=  0 brace=  0 brack=  0 | ]">>

\* C3: one record per line of the input, lines without brackets included;
\* an empty file gives no record, the summary with three zeros, and exit 0.
C3_LineCount ==
  ReadOk =>
    /\ pc = "loop" => (Len(out) = i /\ i <= NumLines(file.content))
    /\ pc = "chars" => (Len(out) = i - 1 /\ i <= NumLines(file.content))
    /\ pc = "final" => Len(out) = NumLines(file.content)
    /\ pc \in {"check", "exited"} =>
         /\ Len(out) = NumLines(file.content) + 1
         /\ \A k \in 1..NumLines(file.content) : Len(out[k]) = 1
    /\ (pc = "exited" /\ file.content = <<>>) =>
         /\ out = << <<"", "FINAL COUNTS: paren 0 brace 0 brack 0">> >>
         /\ exitCode = 0

C3_Witness ==
  /\ pc = "exited"
  /\ file.content = <<"(", VT, "a">>
  /\ Len(out) = 3
  /\ out[1] = <<"   1: paren=  1 brace=  0 brack=  0 | (">>
  /\ out[2] = <<"   2: paren=  1 brace=  0 brack=  0 | a">>

\* C4: two inputs with the same subsequence of bracket characters end with
\* the same three counters and the same exit code.
C4_Transparency ==
  ( /\ pc = "exited"
    /\ prev # <<>>
    /\ ReadOk
    /\ BracketsOf(prev[1].content) = BracketsOf(file.content) ) =>
      /\ <<paren, brace, brack>> = prev[1].counts
      /\ exitCode = prev[1].exitCode

C4_Witness ==
  /\ pc = "exited"
  /\ prev # <<>>
  /\ prev[1].content = <<"(", ")">>
  /\ file.content = <<"(", "\n", ")">>
  /\ exitCode = 0

\* C5 as stated: an input of N lines gives exactly N + 1 lines of standard
\* output.
C5_Original ==
  (ReadOk /\ pc = "exited") => Len(StdoutLines) = Len(lines) + 1

\* C5 amended: an input of N lines gives N + 1 print calls and N + 2 lines
\* of standard output: the N records, one empty line, the summary line.
C5_OutputShape ==
  (ReadOk /\ pc = "exited") =>
    /\ Len(out) = Len(lines) + 1
    /\ Len(StdoutLines) = Len(lines) + 2
    /\ \A k \in 1..Len(lines) : StdoutLines[k] = ExpectedRecord(k)
    /\ StdoutLines[Len(lines) + 1] = ""
    /\ StdoutLines[Len(lines) + 2] = ExpectedSummary

C5_Witness ==
  /\ pc = "exited"
  /\ file.content = <<"(", "\n", "a">>
  /\ StdoutLines = << "   1: paren=  1 brace=  0 brack=  0 | (",
                      "   2: paren=  1 brace=  0 brack=  0 | a",
                      "",
                      "FINAL COUNTS: paren 1 brace 0 brack 0" >>

\* C6: a file that is missing or cannot be decoded ends the process before
\* anything is printed, with the uncaught-error status, never with 0 or 2.
C6_NoRecovery ==
  ~ReadOk =>
    /\ out = <<>>
    /\ pc \in {"start", "read", "exited"}
    /\ exitCode \notin {0, 2}
    /\ pc = "exited" => exitCode = UncaughtErrorStatus

C6_Witness ==
  /\ file.status = "missing"
  /\ pc = "exited"
  /\ exitCode = 1
  /\ out = <<>>

\* C8: an input whose counters dip below zero is scanned to its end all the
\* same, and its exit code depends on the final totals alone.
C8_NegativeNotAnError ==
  (ReadOk /\ pc = "exited" /\ Dips(file.content)) =>
    /\ i = Len(lines)
    /\ Len(out) = Len(lines) + 1
    /\ exitCode = IF /\ Net(file.content, "(", ")") = 0
                     /\ Net(file.content, "{", "}") = 0
                     /\ Net(file.content, "[", "]") = 0
                  THEN 0 ELSE 2

C8_Witness ==
  /\ pc = "exited"
  /\ file.content = <<")", "(">>
  /\ out[1] = <<"   1: paren=  0 brace=  0 brack=  0 | )(">>
  /\ exitCode = 0

\* C9: every step that writes to standard output writes either the record
\* of the next line in order, once all its characters are applied, or,
\* after the last record and before the exit, the summary of the final
\* counters in the order paren, brace, brack; the process exits only with
\* the summary written once.
C9_Order ==
  [][ /\ (pc # "exited" /\ out' # out) =>
           \/ /\ Len(out) < Len(lines)
              /\ i = Len(out) + 1
              /\ j = Len(lines[i]) + 1
              /\ out' = Append(out, <<ExpectedRecord(Len(out) + 1)>>)
           \/ /\ Len(out) = Len(lines)
              /\ i = Len(lines)
              /\ exitCode = -1
              /\ out' = Append(out, <<"", ExpectedSummary>>)
      /\ (ReadOk /\ pc # "exited" /\ pc' = "exited") =>
           /\ out' = out
           /\ Len(out) = Len(lines) + 1
           /\ out[Len(out)] = <<"", ExpectedSummary>>
    ]_vars

C9_Witness ==
  /\ pc = "exited"
  /\ file.content = <<"(", "\n", "]">>
  /\ out = << <<"   1: paren=  1 brace=  0 brack=  0 | (">>,
              <<"   2: paren=  1 brace=  0 brack= -1 | ]">>,
              <<"", "FINAL COUNTS: paren 1 brace 0 brack -1">> >>

\* C10: the read handle is acquired once and is open only while the text
\* is being read; it is closed in every state of the scan, of an output
\* write and of the exit.
C10_HandleScoped ==
  /\ handleOpen => pc = "read"
  /\ opens \in {0, 1}
  /\ pc \in {"init", "loop", "chars", "final", "check"} =>
       (opens = 1 /\ ~handleOpen)
  /\ pc = "exited" => ~handleOpen

C10_Witness ==
  /\ pc = "chars"
  /\ j = 2
  /\ opens = 1
  /\ ~handleOpen

====
